---- MODULE Spec2Model ----
(***************************************************************************)
(* Star-Wrangler: from_to_import.py, star_namer.py, universe.py and        *)
(* star_wrangler.py as state machines.                                     *)
(*                                                                         *)
(*   SpecConvert   from_to_import.main / convert                           *)
(*   SpecWildcard  universe.scrape_wildcard and star_namer.scrape_wildcard *)
(*   SpecCollect   star_wrangler.get_code_words / process                  *)
(*   Spec          star_wrangler.main                                      *)
(*                                                                         *)
(* The lint tool (pylint) is modelled by what it reports on the modelled   *)
(* source texts: E0602 for a use of a name nothing in the text defines,    *)
(* W0614 for a wildcard-imported name the script never uses.               *)
(***************************************************************************)
EXTENDS Integers, Sequences, FiniteSets, TLC

VARIABLES
    \* ---- from_to_import.py
    fpc,            \* position of from_to_import.main
    argc,           \* len(sys.argv)
    orig,           \* content of the script file when main starts
    file,           \* content of the script file now
    result,         \* what convert returned
    \* ---- scrape_wildcard (universe.py, star_namer.py)
    wpc,            \* which of the two implementations have run
    modvars,        \* names of the module handed to scrape_wildcard
    report,         \* the lint report on the script
    out_universe,   \* return value of universe.scrape_wildcard
    out_namer,      \* return value of star_namer.scrape_wildcard
    \* ---- star_wrangler.get_code_words / process
    chain,          \* shape of the module: length of the reference chain
    extra,          \* shape of the module: additional references
    gen,            \* words get_code_words still has to iterate over
    top_max_level,  \* max_level given to the outermost call of process
    stack,          \* call stack of process
    functions,      \* odict of get_code_words: the names, in order
    FUNC_UNDEF,     \* functions whose undefined words are cached
    MYIMPORTS,      \* words imported by the module that the code needs
    skipped,        \* [func, level] of every child passed over for depth
    common_imports, \* the names get_code_words was given
    cpc,            \* position of get_code_words
    \* ---- star_wrangler.main
    mpc,            \* position of main
    onefile,        \* args.onefile
    filenames,      \* args.scripts
    exists,         \* the script files that exist
    sources,        \* content of each script file
    fileno,         \* index in filenames of the script being processed
    line_nums,      \* line numbers of the import lines of the last script
    file_imports,   \* scripts that have an entry in file_imports
    file_functions, \* filename -> names found by get_code_words
    all_functions,  \* the functions odict of main
    warned,         \* scripts main warned about
    files_read,     \* scripts main has opened
    dir_created,    \* /tmp/Star_Wrangler was created by main
    written         \* the output file: <<>> when absent, else <<lines>>

ftiVars  == <<fpc, argc, orig, file, result>>
wildVars == <<wpc, modvars, report, out_universe, out_namer>>
procVars == <<chain, extra, gen, top_max_level, stack, functions,
              FUNC_UNDEF, MYIMPORTS, skipped, common_imports, cpc>>
mainVars == <<mpc, onefile, filenames, exists, sources, fileno, line_nums,
              file_imports, file_functions, all_functions, warned,
              files_read, dir_created, written>>
vars == <<ftiVars, wildVars, procVars, mainVars>>

\* ------------------------------------------------------------------ bounds
MaxLines == 4       \* lines of a script given to from_to_import

\* ------------------------------------------------------- general helpers
Min(S) == CHOOSE x \in S : \A y \in S : x <= y
Max(S) == CHOOSE x \in S : \A y \in S : x >= y

Range(s) == {s[i] : i \in 1..Len(s)}

SeqsUpTo(S, n) == UNION {[1..k -> S] : k \in 0..n}

\* list.pop(i) with a 0-based index i
Pop(s, i) == [k \in 1..(Len(s) - 1) |-> IF k <= i THEN s[k] ELSE s[k + 1]]

\* list.insert(i, x) with a 0-based index i
Insert(s, i, x) ==
    [k \in 1..(Len(s) + 1) |->
        IF k <= i THEN s[k] ELSE IF k = i + 1 THEN x ELSE s[k - 1]]

\* s[:i] and s[i:] of a python list
Take(s, i) == SubSeq(s, 1, IF i < Len(s) THEN i ELSE Len(s))
Drop(s, i) == SubSeq(s, (IF i < Len(s) THEN i ELSE Len(s)) + 1, Len(s))

\* ======================================================================
\* from_to_import.py
\* ======================================================================
modname == "mod"
Names   == {"f", "g", "h"}

\* A script line: 'from mod import <name>', 'import mod', or a statement
\* using <name>; pre tells whether the use reads 'mod.<name>'.
FromLine(n) == [kind |-> "from", name |-> n, pre |-> FALSE]
ImportLine  == [kind |-> "import", name |-> modname, pre |-> FALSE]
UseLine(n)  == [kind |-> "use", name |-> n, pre |-> FALSE]
FtiLines    == {FromLine(n) : n \in Names} \cup {ImportLine}
                   \cup {UseLine(n) : n \in Names}

\* universe.scrape_imports: (0-based line number, normalised import text)
scrape_imports(source) ==
    {<<i - 1, source[i]>> : i \in {k \in 1..Len(source) :
                                    source[k].kind \in {"from", "import"}}}

\* The name a use line looks up at module level
LookedUp(line) == IF line.pre THEN modname ELSE line.name

\* A name the text binds: imported by a from-line, or the module itself
Binds(source, n) ==
    \E k \in 1..Len(source) :
        \/ source[k].kind = "from" /\ source[k].name = n
        \/ source[k].kind = "import" /\ n = modname

\* universe.get_undefined: the E0602 items of the lint report, each with
\* the (1-based) line, the column and the message naming the variable
get_undefined(source) ==
    {[line |-> i, column |-> 0, message |-> LookedUp(source[i])] :
        i \in {k \in 1..Len(source) :
                 /\ source[k].kind = "use"
                 /\ ~Binds(source, LookedUp(source[k]))}}

\* sd.common.str_insert(text, column, modname + '.') on a use line
str_insert(line) == [line EXCEPT !.pre = TRUE]

\* "for lineno in sorted(list(nums), reverse=True): source.pop(lineno)"
RECURSIVE PopDescending(_, _)
PopDescending(source, nums) ==
    IF nums = {} THEN source
    ELSE PopDescending(Pop(source, Max(nums)), nums \ {Max(nums)})

None == [none |-> TRUE, lines |-> <<>>]
Some(s) == [none |-> FALSE, lines |-> s]

\* "item not in undefined": the items of the second lint run that are not
\* equal to an item of the first
NewItems(before, after) == {item \in after : item \notin before}

\* lines 16-26: line numbers and imported words of the 'from mod' lines
FromNums(source) ==
    {p[1] : p \in {q \in scrape_imports(source) : q[2].kind = "from"}}
FromWords(source) ==
    {p[2].name : p \in {q \in scrape_imports(source) : q[2].kind = "from"}}

\* lines 25-26: some other import line mentions the module
found_modname_import(source) ==
    \E p \in scrape_imports(source) : p[2].kind = "import"

\* lines 37-45: the source without its from-lines, with 'import mod'
\* inserted where the first of them stood unless the module is imported
Stripped(source) ==
    IF found_modname_import(source)
    THEN PopDescending(source, FromNums(source))
    ELSE Insert(PopDescending(source, FromNums(source)),
                Min(FromNums(source)), ImportLine)

convert(source) ==
    LET undefined == get_undefined(source)
        source2  == Stripped(source)
        matches  == {<<item.line - 1, item.column>> :
                        item \in NewItems(undefined, get_undefined(source2))}
        replaced == [k \in 1..Len(source2) |->
                        IF <<k - 1, 0>> \in matches
                        THEN str_insert(source2[k]) ELSE source2[k]]
    IN  IF FromWords(source) = {} THEN None
        ELSE IF matches = {} THEN None
        ELSE Some(replaced)

\* main up to the 'Save?' question
FtiConvert ==
    /\ fpc = "start"
    /\ IF argc # 3
       THEN /\ fpc' = "usage"
            /\ result' = result
       ELSE /\ result' = convert(file)
            /\ fpc' = IF result'.none THEN "notfound" ELSE "query"
    /\ UNCHANGED <<argc, orig, file>>
    /\ UNCHANGED <<wildVars, procVars, mainVars>>

\* query('Save?') and what follows
FtiSave ==
    /\ fpc = "query"
    /\ \E answer \in BOOLEAN :
        IF answer
        THEN fpc' = "saved" /\ file' = result.lines
        ELSE fpc' = "declined" /\ file' = file
    /\ UNCHANGED <<argc, orig, result>>
    /\ UNCHANGED <<wildVars, procVars, mainVars>>


FtiIdle ==
    /\ fpc = "idle" /\ argc = 0 /\ orig = <<>> /\ file = <<>>
    /\ result = None

InitConvert ==
    /\ fpc = "start"
    /\ argc \in 2..4
    /\ orig \in SeqsUpTo(FtiLines, MaxLines)
    /\ file = orig
    /\ result = None

\* ======================================================================
\* scrape_wildcard: universe.py and star_namer.py
\* ======================================================================
WMax == 3           \* largest name of the module handed to scrape_wildcard

\* Names of a module: StdMod is an imported standard module (a module
\* object, as 'os'), Dunder a name starting with '__', the others are
\* functions and classes.
StdMod == 0
Dunder == -1
startswith__(name) == name < 0
isModuleType(name) == name = StdMod

\* Messages of the lint tool
W0614(n) == [id |-> "W0614", head |-> "Unused import ", name |-> n,
             tail |-> " from wildcard import"]
W0611(n) == [id |-> "W0611", head |-> "Unused import ", name |-> n,
             tail |-> ""]
E0602(n) == [id |-> "E0602", head |-> "Undefined variable ", name |-> n,
             tail |-> ""]
Messages == {W0614(n) : n \in StdMod..WMax} \cup {W0611(StdMod), E0602(1)}

\* re.sub('^Unused import ', '', line) and
\* re.sub(' from wildcard import$', '', line)
SubHead(m) == IF m.head = "Unused import " THEN [m EXCEPT !.head = ""] ELSE m
SubTail(m) ==
    IF m.tail = " from wildcard import" THEN [m EXCEPT !.tail = ""] ELSE m

\* the texts universe.scrape_wildcard appends to unused
universe_unused(rep) == {SubTail(SubHead(m)) : m \in {x \in rep : x.id = "W0614"}}

\* the names among those texts
BareNames(texts) == {t.name : t \in {x \in texts : x.head = "" /\ x.tail = ""}}

\* the filter without the test on module objects
FilterVarsKeepModules(mv, unused) ==
    {name \in mv \ unused : ~startswith__(name)}

\* the filter both implementations end with
FilterVars(mv, unused) ==
    {name \in mv \ unused : ~startswith__(name) /\ ~isModuleType(name)}

universe_scrape_wildcard(rep, mv) ==
    LET unused == universe_unused(rep)
    IN  IF unused = {} THEN {} ELSE FilterVars(mv, BareNames(unused))

\* star_namer: a line of the text report holds "W0614: Unused import ";
\* line.split(err)[1].split()[0] is the word that follows
namer_unused(rep) ==
    {m.name : m \in {x \in rep : x.id = "W0614" /\ x.head = "Unused import "}}

namer_scrape_wildcard(rep, mv) == FilterVars(mv, namer_unused(rep))

WildUniverse ==
    /\ "universe" \notin wpc
    /\ wpc \subseteq {"namer"}
    /\ out_universe' = universe_scrape_wildcard(report, modvars)
    /\ wpc' = wpc \cup {"universe"}
    /\ UNCHANGED <<modvars, report, out_namer>>
    /\ UNCHANGED <<ftiVars, procVars, mainVars>>

WildNamer ==
    /\ "namer" \notin wpc
    /\ wpc \subseteq {"universe"}
    /\ out_namer' = namer_scrape_wildcard(report, modvars)
    /\ wpc' = wpc \cup {"namer"}
    /\ UNCHANGED <<modvars, report, out_universe>>
    /\ UNCHANGED <<ftiVars, procVars, mainVars>>

WildIdle ==
    /\ wpc = {"idle"} /\ modvars = {} /\ report = {}
    /\ out_universe = {} /\ out_namer = {}

InitWildcard ==
    /\ wpc = {}
    /\ modvars \in SUBSET (Dunder..WMax)
    /\ report \in SUBSET Messages
    /\ out_universe = {} /\ out_namer = {}


\* ======================================================================
\* star_wrangler.py: get_code_words and process
\* ======================================================================
MaxChain   == 11    \* functions of the module, each referring to the next
MaxImports == 2     \* names a script imports from the module
MaxArg     == 3     \* largest max_level a caller of process passes

DefaultMaxLevel == 9

Alien == -2         \* a word that is no name of the module
Star  == -3         \* the '*' of a wildcard import

Shapes == {"plain", "self", "back", "short", "os", "alien"}

\* Members of the module: a dunder name, the standard module it imports,
\* and the functions 1..n.  The module has no aliases, no bound methods
\* and no plain variables among its globals.
Members(n) == {Dunder, StdMod} \cup (1..n)
Funcs(n)   == 1..n

\* undefined(code): the words the lint tool reports undefined in the
\* source of func, for a module of n functions of the given shape
Words(func, n, shape) ==
    (IF shape = "self" /\ func = 1 THEN <<1>> ELSE <<>>)
    \o (IF func < n THEN <<func + 1>> ELSE <<>>)
    \o (IF shape = "back" /\ func = n THEN <<1>> ELSE <<>>)
    \o (IF shape = "short" /\ func = 1 /\ n >= 3 THEN <<3>> ELSE <<>>)
    \o (IF shape = "os" /\ func = n THEN <<StdMod>> ELSE <<>>)
    \o (IF shape = "alien" /\ func = 1 THEN <<Alien>> ELSE <<>>)

\* load_imports(mod): the words an import line of the module brings in
ModImports == {StdMod}

\* the depth test one level early
TooDeepOffByOne(level, max_level) == max_level # 0 /\ level + 1 >= max_level

\* "if max_level and level + 1 > max_level: continue"
TooDeep(level, max_level) == max_level # 0 /\ level + 1 > max_level

\* max_level of the nested call "process(subfunc, functions, caller=mod,
\* level=level + 1)": the argument is not passed, the default applies
ChildMaxLevel(max_level) == DefaultMaxLevel

Frame(func, level, max_level) ==
    [func |-> func, level |-> level, max_level |-> max_level, i |-> 0]

Top == stack[Len(stack)]
Popped == SubSeq(stack, 1, Len(stack) - 1)
SetTop(fr) == [stack EXCEPT ![Len(stack)] = fr]

\* orderings of a set, as sequences without repetition
Orderings(S) ==
    {s \in [1..Cardinality(S) -> S] : \A a, b \in 1..Cardinality(S) :
                                          a # b => s[a] # s[b]}

\* get_code_words, lines 247-257: choose what to iterate over
GetCodeWordsStart ==
    /\ cpc = "start"
    /\ IF Star \in Range(common_imports)
       THEN gen' \in Orderings(namer_scrape_wildcard(report, modvars))
       ELSE gen' = common_imports
    /\ cpc' = "iter"
    /\ UNCHANGED <<chain, extra, top_max_level, stack, functions, FUNC_UNDEF,
                   MYIMPORTS, skipped, common_imports>>
    /\ UNCHANGED <<ftiVars, wildVars, mainVars>>

\* get_code_words, lines 259-283: one round of "for word in gen"
GetCodeWordsNext ==
    /\ cpc = "iter"
    /\ stack = <<>>
    /\ gen # <<>>
    /\ gen' = Tail(gen)
    /\ stack' = IF Head(gen) \in Members(chain)
                THEN <<Frame(Head(gen), 0, top_max_level)>>
                ELSE <<>>
    /\ UNCHANGED <<chain, extra, top_max_level, functions, FUNC_UNDEF,
                   MYIMPORTS, skipped, common_imports, cpc>>
    /\ UNCHANGED <<ftiVars, wildVars, mainVars>>

\* a direct call process(func, functions, max_level=m)
ProcessCall ==
    /\ cpc = "call"
    /\ stack' = <<Frame(Head(gen), 0, top_max_level)>>
    /\ gen' = Tail(gen)
    /\ cpc' = "called"
    /\ UNCHANGED <<chain, extra, top_max_level, functions, FUNC_UNDEF,
                   MYIMPORTS, skipped, common_imports>>
    /\ UNCHANGED <<ftiVars, wildVars, mainVars>>

\* process, lines 162-210: return on a standard module, else load the
\* code of func and its undefined words
ProcessEnter ==
    /\ stack # <<>>
    /\ Top.i = 0
    /\ IF isModuleType(Top.func)
       THEN /\ stack' = Popped
            /\ UNCHANGED <<functions, FUNC_UNDEF>>
       ELSE /\ functions' = IF Top.func \in Range(functions) THEN functions
                            ELSE Append(functions, Top.func)
            /\ FUNC_UNDEF' = FUNC_UNDEF \cup {Top.func}
            /\ stack' = SetTop([Top EXCEPT !.i = 1])
    /\ UNCHANGED <<chain, extra, gen, top_max_level, MYIMPORTS, skipped,
                   common_imports, cpc>>
    /\ UNCHANGED <<ftiVars, wildVars, mainVars>>

\* process, lines 214-222: one round of "for word in words"
ProcessChild ==
    /\ stack # <<>>
    /\ Top.i \in 1..Len(Words(Top.func, chain, extra))
    /\ LET word == Words(Top.func, chain, extra)[Top.i]
           next == [Top EXCEPT !.i = Top.i + 1]
       IN  IF word \in Members(chain) /\ word # Top.func
           THEN IF TooDeep(Top.level, Top.max_level)
                THEN /\ skipped' = skipped \cup
                                     {[func |-> word, level |-> Top.level + 1]}
                     /\ stack' = SetTop(next)
                ELSE /\ stack' = Append(SetTop(next),
                                   Frame(word, Top.level + 1,
                                         ChildMaxLevel(Top.max_level)))
                     /\ skipped' = skipped
           ELSE /\ stack' = SetTop(next)
                /\ skipped' = skipped
    /\ UNCHANGED <<chain, extra, gen, top_max_level, functions, FUNC_UNDEF,
                   MYIMPORTS, common_imports, cpc>>
    /\ UNCHANGED <<ftiVars, wildVars, mainVars>>

\* process, lines 225-230, and the return to the caller
ProcessReturn ==
    /\ stack # <<>>
    /\ Top.i > Len(Words(Top.func, chain, extra))
    /\ MYIMPORTS' = MYIMPORTS \cup
                      (Range(Words(Top.func, chain, extra)) \cap ModImports)
    /\ stack' = Popped
    /\ UNCHANGED <<chain, extra, gen, top_max_level, functions, FUNC_UNDEF,
                   skipped, common_imports, cpc>>
    /\ UNCHANGED <<ftiVars, wildVars, mainVars>>

\* get_code_words, line 284
GetCodeWordsReturn ==
    /\ cpc = "iter"
    /\ stack = <<>>
    /\ gen = <<>>
    /\ cpc' = "done"
    /\ UNCHANGED <<chain, extra, gen, top_max_level, stack, functions,
                   FUNC_UNDEF, MYIMPORTS, skipped, common_imports>>
    /\ UNCHANGED <<ftiVars, wildVars, mainVars>>

ProcIdle ==
    /\ chain = 0 /\ extra = "plain" /\ gen = <<>> /\ top_max_level = 0
    /\ stack = <<>> /\ functions = <<>> /\ FUNC_UNDEF = {} /\ MYIMPORTS = {}
    /\ skipped = {} /\ common_imports = <<>> /\ cpc = "idle"

\* names a script may import: the first two functions, the last one, and
\* a name the module does not have
Importable(n) == {1, 2, n} \cap Funcs(n)

ProcFresh ==
    /\ stack = <<>> /\ functions = <<>> /\ FUNC_UNDEF = {}
    /\ MYIMPORTS = {} /\ skipped = {}

InitCollect ==
    /\ chain \in 1..MaxChain
    /\ extra \in Shapes
    /\ top_max_level = DefaultMaxLevel
    /\ ProcFresh
    /\ gen = <<>>
    /\ cpc = "start"
    /\ modvars = Members(chain)
    /\ wpc = {"idle"} /\ out_universe = {} /\ out_namer = {}
    /\ \/ /\ common_imports \in
                SeqsUpTo(Importable(chain) \cup {Alien}, MaxImports)
                    \ {<<>>}
          /\ report = {}
       \/ /\ common_imports = <<Star>>
          /\ \E used \in SUBSET (Importable(chain) \cup {StdMod}) :
                /\ Cardinality(used) <= MaxImports
                /\ report = {W0614(n) : n \in (StdMod..chain) \ used}

InitProcess ==
    /\ chain \in 1..MaxChain
    /\ extra \in Shapes
    /\ top_max_level \in 0..MaxArg
    /\ ProcFresh
    /\ gen = <<1>>
    /\ common_imports = <<1>>
    /\ cpc = "call"


\* ======================================================================
\* star_wrangler.py: main
\* ======================================================================
MaxScripts == 2     \* scripts on the command line
MaxSource  == 4     \* lines of the first script
Scripts    == {1, 2}

\* A script line: an import line that mentions the module
\* ('from <module> import <function 1>') or any other line; n is the
\* line's place in the script.
ScriptKinds == {"import", "code"}
ScriptTexts(len) ==
    {[k \in 1..len |-> [kind |-> kinds[k], n |-> k]] :
        kinds \in [1..len -> ScriptKinds]}
ScriptsUpTo(n) == UNION {ScriptTexts(len) : len \in 0..n}

Line(kind) == [kind |-> kind, n |-> 0]
Hashes == Line("hashes")        \* '#' * 80

\* star_common.error: report and leave the program
error == "error"

\* the checks without the one on --onefile
CheckFailsAnyCount(names, present, one) ==
    \/ names = <<>>
    \/ \E k \in 1..Len(names) : names[k] \notin present

\* lines 312-320: the checks on the command line
CheckFails(names, present, one) ==
    \/ names = <<>>
    \/ \E k \in 1..Len(names) : names[k] \notin present
    \/ one /\ Len(names) # 1

MainCheck ==
    /\ mpc = "start"
    /\ IF CheckFails(filenames, exists, onefile)
       THEN /\ mpc' = error
            /\ UNCHANGED <<dir_created, fileno>>
       ELSE /\ dir_created' = TRUE
            /\ fileno' = 1
            /\ mpc' = "scan"
    /\ UNCHANGED <<onefile, filenames, exists, sources, line_nums,
                   file_imports, file_functions, all_functions, warned,
                   files_read, written>>
    /\ UNCHANGED <<ftiVars, wildVars, procVars>>

\* line numbers (0-based) of the import lines that mention the module
ImportNums(source) ==
    {k - 1 : k \in {j \in 1..Len(source) : source[j].kind = "import"}}

\* re.sub('.*import ', '', line) for each of them, in order
RECURSIVE ImportWords(_)
ImportWords(source) ==
    IF source = <<>> THEN <<>>
    ELSE (IF Head(source).kind = "import" THEN <<1>> ELSE <<>>)
             \o ImportWords(Tail(source))

\* d[key] = value on a dict
Put(d, key, value) ==
    [k \in DOMAIN d \cup {key} |-> IF k = key THEN value ELSE d[k]]

\* lines 335-353: read the next script, and either warn or start
\* get_code_words on its imports
MainScan ==
    /\ mpc = "scan"
    /\ fileno <= Len(filenames)
    /\ LET filename == filenames[fileno]
           source == sources[filename]
       IN  /\ files_read' = files_read \cup {filename}
           /\ line_nums' = ImportNums(source)
           /\ IF ImportWords(source) = <<>>
              THEN /\ warned' = warned \cup {filename}
                   /\ fileno' = fileno + 1
                   /\ UNCHANGED <<mpc, file_imports, procVars>>
              ELSE /\ file_imports' =
                         Put(file_imports, filename, ImportWords(source))
                   /\ common_imports' = ImportWords(source)
                   /\ functions' = <<>>
                   /\ gen' = <<>>
                   /\ cpc' = "start"
                   /\ mpc' = "collect"
                   /\ UNCHANGED <<warned, fileno, chain, extra, top_max_level,
                                  stack, FUNC_UNDEF, MYIMPORTS, skipped>>
    /\ UNCHANGED <<onefile, filenames, exists, sources, file_functions,
                   all_functions, dir_created, written>>
    /\ UNCHANGED <<ftiVars, wildVars>>

\* "for func in sub: if func not in functions: functions[func] = sub[func]"
RECURSIVE Merge(_, _)
Merge(into, sub) ==
    IF sub = <<>> THEN into
    ELSE Merge(IF Head(sub) \in Range(into) THEN into
               ELSE Append(into, Head(sub)), Tail(sub))

\* lines 353-357: get_code_words has returned
MainMerge ==
    /\ mpc = "collect"
    /\ cpc = "done"
    /\ file_functions' = Put(file_functions, filenames[fileno], functions)
    /\ all_functions' = Merge(all_functions, functions)
    /\ fileno' = fileno + 1
    /\ mpc' = "scan"
    /\ cpc' = "idle"
    /\ UNCHANGED <<chain, extra, gen, top_max_level, stack, functions,
                   FUNC_UNDEF, MYIMPORTS, skipped, common_imports>>
    /\ UNCHANGED <<onefile, filenames, exists, sources, line_nums,
                   file_imports, warned, files_read, dir_created, written>>
    /\ UNCHANGED <<ftiVars, wildVars>>

Reverse(s) == [k \in 1..Len(s) |-> s[Len(s) + 1 - k]]

RECURSIVE FuncLines(_)
FuncLines(names) ==
    IF names = <<>> THEN <<>>
    ELSE <<[kind |-> "func", n |-> Head(names)], Line("newline")>>
             \o FuncLines(Tail(names))

\* lines 364-398: header, import lines of the module, code of the
\* functions
Generated(one, myimports, funcs) ==
    (IF one THEN <<Line("header")>> ELSE <<Line("shebang"), Line("header")>>)
    \o <<Line("blank")>>
    \o (LET order == CHOOSE s \in Orderings(myimports \ Range(funcs)) : TRUE
        IN  [k \in 1..Len(order) |-> [kind |-> "myimport", n |-> order[k]]])
    \o (IF myimports # {} THEN <<Line("newline")>> ELSE <<>>)
    \o FuncLines(Reverse(funcs))

Footer == <<Line("footer"), Line("date"), Line("quotes")>>

\* "for num in line_nums: source.pop(num)", in the order the set yields
\* its elements; a pop beyond the end raises IndexError
RECURSIVE PopEach(_, _)
PopEach(source, order) ==
    IF order = <<>> THEN [ok |-> TRUE, lines |-> source]
    ELSE IF Head(order) >= Len(source) THEN [ok |-> FALSE, lines |-> source]
    ELSE PopEach(Pop(source, Head(order)), Tail(order))

\* lines 402-407
Splice(popped, ie, output) ==
    Take(popped, ie) \o <<Hashes>> \o output
        \o <<Hashes, Line("blank"), Line("blank")>> \o Drop(popped, ie)

\* lines 360-413: build the output and write it
MainWrite ==
    /\ mpc = "scan"
    /\ fileno > Len(filenames)
    /\ LET output == Generated(onefile, MYIMPORTS, all_functions)
           source == sources[filenames[Len(filenames)]]
       IN  IF ~onefile
           THEN /\ written' = <<output \o Footer>>
                /\ mpc' = "done"
           ELSE IF line_nums = {}
           THEN /\ mpc' = "crash"
                /\ written' = written
           ELSE \E order \in Orderings(line_nums) :
                  LET popped == PopEach(source, order)
                  IN  IF ~popped.ok
                      THEN /\ mpc' = "crash"
                           /\ written' = written
                      ELSE /\ written' =
                                <<Splice(popped.lines, Max(line_nums), output)
                                    \o Footer>>
                           /\ mpc' = "done"
    /\ UNCHANGED <<onefile, filenames, exists, sources, fileno, line_nums,
                   file_imports, file_functions, all_functions, warned,
                   files_read, dir_created>>
    /\ UNCHANGED <<ftiVars, wildVars, procVars>>

MainIdle ==
    /\ mpc = "idle" /\ onefile = FALSE /\ filenames = <<>> /\ exists = {}
    /\ sources = <<>> /\ fileno = 0 /\ line_nums = {} /\ file_imports = <<>>
    /\ file_functions = <<>> /\ all_functions = <<>> /\ warned = {}
    /\ files_read = {} /\ dir_created = FALSE /\ written = <<>>

InitMain ==
    /\ mpc = "start"
    /\ onefile \in BOOLEAN
    /\ filenames \in SeqsUpTo(Scripts, MaxScripts)
    /\ exists \in SUBSET Scripts
    /\ sources \in [Scripts -> ScriptsUpTo(MaxSource)]
    /\ \A k \in Scripts \ {1} : Len(sources[k]) <= 1
    /\ fileno = 0 /\ line_nums = {} /\ file_imports = <<>>
    /\ file_functions = <<>> /\ all_functions = <<>> /\ warned = {}
    /\ files_read = {} /\ dir_created = FALSE /\ written = <<>>
    \* the module: function 1 calls function 2, which uses a standard
    \* module that the module imports
    /\ chain = 2 /\ extra = "os" /\ top_max_level = DefaultMaxLevel
    /\ ProcFresh /\ gen = <<>> /\ common_imports = <<>> /\ cpc = "idle"
    /\ modvars = Members(2) /\ report = {}
    /\ wpc = {"idle"} /\ out_universe = {} /\ out_namer = {}

\* ======================================================================
\* Specifications
\* ======================================================================
ConvertInit == InitConvert /\ WildIdle /\ ProcIdle /\ MainIdle
NextConvert == FtiConvert \/ FtiSave
SpecConvert == ConvertInit /\ [][NextConvert]_vars

WildcardInit == InitWildcard /\ FtiIdle /\ ProcIdle /\ MainIdle
NextWildcard == WildUniverse \/ WildNamer
SpecWildcard == WildcardInit /\ [][NextWildcard]_vars

CollectInit == InitCollect /\ FtiIdle /\ MainIdle
NextCollect ==
    \/ GetCodeWordsStart
    \/ GetCodeWordsNext
    \/ ProcessEnter
    \/ ProcessChild
    \/ ProcessReturn
    \/ GetCodeWordsReturn
SpecCollect == CollectInit /\ [][NextCollect]_vars

ProcessInit == InitProcess /\ FtiIdle /\ WildIdle /\ MainIdle
NextProcess ==
    \/ ProcessCall
    \/ ProcessEnter
    \/ ProcessChild
    \/ ProcessReturn
SpecProcess == ProcessInit /\ [][NextProcess]_vars

Init == InitMain /\ FtiIdle
Next ==
    \/ MainCheck
    \/ MainScan
    \/ GetCodeWordsStart
    \/ GetCodeWordsNext
    \/ ProcessEnter
    \/ ProcessChild
    \/ ProcessReturn
    \/ GetCodeWordsReturn
    \/ MainMerge
    \/ MainWrite
Spec == Init /\ [][Next]_vars

\* ======================================================================
\* Properties
\* ======================================================================

\* ---- from_to_import ---------------------------------------------------
FtiAfterConvert == fpc \in {"query", "saved", "declined"}

\* names the lint tool reports undefined in a text
UndefinedNames(source) == {item.message : item \in get_undefined(source)}

\* C1: in a converted source, 'mod.' stands only in front of uses of names
\* that the removed 'from mod import ...' lines imported (so a use that
\* was undefined before the conversion stays unprefixed).
C1_PrefixOnlyImported ==
    FtiAfterConvert =>
        \A k \in 1..Len(result.lines) :
            result.lines[k].pre =>
                result.lines[k].name \in FromWords(orig)

\* removing the from-lines makes the lint tool report no undefined name
\* it did not report before
NoNewUndefinedName(source) ==
    UndefinedNames(Stripped(source)) \subseteq UndefinedNames(source)

\* C6: the file is rewritten only after a conversion and a yes; convert
\* returns None without from-lines and when removing them brings no new
\* undefined name, and then main ends at 'Could not find anything to
\* convert'; the file is untouched there, after a no, and on a wrong
\* argument count.
C6_RewriteOnlyConverted ==
    /\ file # orig => fpc = "saved" /\ ~result.none
    /\ fpc \in {"usage", "notfound", "declined"} => file = orig
    /\ fpc # "start" /\ argc # 3 => fpc = "usage"
    /\ fpc # "start" /\ argc = 3 /\ FromWords(orig) = {} =>
            result.none /\ fpc = "notfound"
    /\ fpc # "start" /\ argc = 3 /\ FromWords(orig) # {}
            /\ NoNewUndefinedName(orig) =>
            result.none /\ fpc = "notfound"

\* ---- scrape_wildcard --------------------------------------------------
\* names the lint tool reported as unused wildcard imports
Reported(rep) == {m.name : m \in {x \in rep : x.id = "W0614"}}

\* entries of the module that are not reported, not dunder, not modules
Expected(rep, mv) ==
    {name \in mv : /\ name \notin Reported(rep)
                   /\ name >= 0
                   /\ name # StdMod}

\* C7 as stated: both implementations return the expected entries for
\* every lint report, hence the same dict.
C7_BothExact ==
    /\ "universe" \in wpc => out_universe = Expected(report, modvars)
    /\ "namer" \in wpc => out_namer = Expected(report, modvars)
    /\ wpc = {"universe", "namer"} => out_universe = out_namer

\* C7 amended: star_namer.scrape_wildcard returns the expected entries for
\* every lint report; universe.scrape_wildcard returns them when at least
\* one name is reported unused and the empty dict when none is, so the two
\* agree whenever at least one name is reported.
C7_ExactUnlessNothingReported ==
    /\ "namer" \in wpc => out_namer = Expected(report, modvars)
    /\ "universe" \in wpc =>
          out_universe = IF Reported(report) = {} THEN {}
                         ELSE Expected(report, modvars)
    /\ wpc = {"universe", "namer"} /\ Reported(report) # {} =>
          out_universe = out_namer

\* both implementations ran on a report with unused names, on a module
\* with a dunder name, a module object and a function that is kept
C7_Witness ==
    /\ wpc = {"universe", "namer"}
    /\ Reported(report) # {}
    /\ {Dunder, StdMod} \subseteq modvars
    /\ StdMod \notin Reported(report)
    /\ out_universe # {}
    /\ out_universe = out_namer

\* ---- get_code_words / process ----------------------------------------
\* the names get_code_words starts from: the imported names that are
\* functions of the module; with a wildcard import, the functions the lint
\* tool does not report unused
Roots ==
    IF Star \in Range(common_imports)
    THEN Funcs(chain) \ Reported(report)
    ELSE Range(common_imports) \cap Funcs(chain)

\* functions of the module that the code of func refers to
Refs(func) == Range(Words(func, chain, extra)) \cap Funcs(chain)

\* functions reachable from S by at most k references
RECURSIVE Within(_, _)
Within(S, k) ==
    IF k = 0 THEN S
    ELSE Within(S \cup UNION {Refs(func) : func \in S}, k - 1)

C4_MaxLevelBoundsTraversal ==
    /\ top_max_level > 0 =>
          \A k \in 1..Len(stack) : stack[k].level <= top_max_level
    /\ top_max_level = 0 => skipped = {}

\* ---- star_wrangler.main ----------------------------------------------
IsScriptLine(line) == line.kind \in ScriptKinds
IsKept(line) == line.kind # "import"

\* the script main has read in --onefile mode
TheScript == sources[filenames[1]]

\* number of kept lines that stand before the last import line
KeptBeforeLastImport(source) ==
    Max(ImportNums(source)) + 1 - Cardinality(ImportNums(source))

\* C2: in --onefile mode, for a script with one or more import lines that
\* mention the module, main writes the script without exactly those lines,
\* the others in their order, and the generated section between two lines
\* of 80 '#' at the place of the last of the import lines.
C2_OnefileSplice ==
    onefile /\ mpc \in {"done", "crash"} /\ line_nums # {} =>
        /\ mpc = "done"
        /\ written # <<>>
        /\ LET f == written[1]
               hs == {k \in 1..Len(f) : f[k] = Hashes}
           IN  /\ SelectSeq(f, IsScriptLine) = SelectSeq(TheScript, IsKept)
               /\ Cardinality(hs) = 2
               /\ Min(hs) = KeptBeforeLastImport(TheScript) + 1
               /\ \A k \in Min(hs)..Max(hs) : ~IsScriptLine(f[k])

\* the command line is one that main rejects
BadArgs ==
    \/ filenames = <<>>
    \/ \E k \in 1..Len(filenames) : filenames[k] \notin exists
    \/ onefile /\ Len(filenames) # 1

\* C5: without scripts, with a script that does not exist, or with
\* --onefile and a number of scripts other than one, main ends in an error
\* with the output directory not created, no script read and no output
\* file written.
C5_ErrorsBeforeEffects ==
    BadArgs =>
        /\ mpc \in {"start", "error"}
        /\ ~dir_created
        /\ files_read = {}
        /\ written = <<>>

\* main has ended in an error on --onefile with two existing scripts
C5_Witness ==
    /\ mpc = "error"
    /\ onefile
    /\ Len(filenames) = 2
    /\ Range(filenames) \subseteq exists
    /\ ~dir_created

\* C8: a script without an import line that mentions the module is only
\* warned about: nothing is recorded for it, and main runs to its end and
\* writes the output file, in normal mode and in --onefile mode.
C8_WarnOnly ==
    warned # {} =>
        /\ \A s \in warned :
              s \notin DOMAIN file_imports /\ s \notin DOMAIN file_functions
        /\ mpc # "crash"
        /\ mpc = "done" => written # <<>>

====
